---- MODULE Spec2Model ----
(***************************************************************************)
(* Model of the text-to-table pipeline of vspd_legend_extractor.py:        *)
(* the concatenation of the OCR text of the uploaded files, the line scan  *)
(* of parse_plant_text with its "current category", the field extraction   *)
(* of an entry line, determine_category, and the groupby/sort that builds  *)
(* the returned table.                                                     *)
(*                                                                         *)
(* A string is a sequence of characters; a character is a one-character    *)
(* TLA+ string, and the three non-ASCII characters the code names are      *)
(* written by their code point.                                            *)
(***************************************************************************)
EXTENDS Integers, Sequences, FiniteSets, TLC

TIMES == "U+00D7"
PRIME == "U+2032"
EMDASH == "U+2014"

(***************************************************************************)
(* Character classes and the str methods the code uses.                    *)
(***************************************************************************)
Whitespace == {" ", "\t", "\n", "\r", "\f"}

DigitChars == <<"0", "1", "2", "3", "4", "5", "6", "7", "8", "9">>

Digits == {DigitChars[i] : i \in 1..Len(DigitChars)}

UpperChars == <<"A", "B", "C", "D", "E", "F", "G", "H", "I", "J", "K", "L", "M",
                "N", "O", "P", "Q", "R", "S", "T", "U", "V", "W", "X", "Y", "Z">>

LowerChars == <<"a", "b", "c", "d", "e", "f", "g", "h", "i", "j", "k", "l", "m",
                "n", "o", "p", "q", "r", "s", "t", "u", "v", "w", "x", "y", "z">>

\* The characters of the model in code point order (the order of str comparison).
CodePoints == <<"\t", "\n", "\f", "\r", " ", "'", "-", "." >> \o DigitChars
              \o UpperChars \o LowerChars \o <<TIMES, EMDASH, PRIME>>

IndexIn(seq, c) == CHOOSE i \in 1..Len(seq) : seq[i] = c

Ord(c) == IndexIn(CodePoints, c)

\* the lower-case letter of each upper-case letter, tabulated
LowerOf ==
    [c \in {UpperChars[i] : i \in 1..Len(UpperChars)} |-> LowerChars[IndexIn(UpperChars, c)]]
    @@ <<>>

LowerChar(c) == IF c \in DOMAIN LowerOf THEN LowerOf[c] ELSE c

\* the function f on 1..n as the sequence of its values
AsSeq(f, n) == SubSeq(f, 1, n)

\* str.lower()
Lower(s) == AsSeq([i \in 1..Len(s) |-> LowerChar(s[i])], Len(s))

Min(S) == CHOOSE x \in S : \A y \in S : x <= y

Max(S) == CHOOSE x \in S : \A y \in S : y <= x

Tail_(s, i) == SubSeq(s, i, Len(s))

\* s[i:].startswith(k)
StartsWithAt(s, i, k) ==
    /\ i + Len(k) - 1 <= Len(s)
    /\ \A j \in 1..Len(k) : s[i + j - 1] = k[j]

\* the positions at which k occurs in s
Occurrences(k, s) == {i \in 1..(Len(s) - Len(k) + 1) : StartsWithAt(s, i, k)}

\* k in s
IsSubstr(k, s) == Occurrences(k, s) # {}

\* str.strip()
Strip(s) ==
    LET keep == {i \in 1..Len(s) : s[i] \notin Whitespace}
    IN  IF keep = {} THEN <<>> ELSE SubSeq(s, Min(keep), Max(keep))

\* str.split("\n")
RECURSIVE Split(_)
Split(s) ==
    LET nl == {i \in 1..Len(s) : s[i] = "\n"}
    IN  IF nl = {} THEN <<s>>
        ELSE <<SubSeq(s, 1, Min(nl) - 1)>> \o Split(Tail_(s, Min(nl) + 1))

\* str.replace(old, ""): every non-overlapping occurrence, left to right;
\* an empty old leaves the string as it is.
RECURSIVE Remove(_, _)
Remove(s, old) ==
    IF old = <<>> \/ ~IsSubstr(old, s) THEN s
    ELSE LET i == Min(Occurrences(old, s))
         IN  SubSeq(s, 1, i - 1) \o Remove(Tail_(s, i + Len(old)), old)

\* the end of the run of characters of class cls that starts at i (i - 1 when
\* s[i] is not of the class): what a greedy cls* consumes
RunEnd(s, i, cls) ==
    Min({k \in i..(Len(s) + 1) : k = Len(s) + 1 \/ s[k] \notin cls}) - 1

\* str.replace(c, d) for one-character c and d
ReplaceChar(s, c, d) == AsSeq([i \in 1..Len(s) |-> IF s[i] = c THEN d ELSE s[i]], Len(s))

\* re.sub(r"\s{2,}", " ", s)
RECURSIVE CollapseSpaces(_)
CollapseSpaces(s) ==
    LET runs == {i \in 1..(Len(s) - 1) : s[i] \in Whitespace /\ s[i + 1] \in Whitespace}
    IN  IF runs = {} THEN s
        ELSE LET i == Min(runs)
                 e == RunEnd(s, i, Whitespace)
             IN  SubSeq(s, 1, i - 1) \o <<" ">> \o CollapseSpaces(Tail_(s, e + 1))

\* int(digits)
RECURSIVE ParseInt(_)
ParseInt(ds) ==
    IF ds = <<>> THEN 0
    ELSE 10 * ParseInt(SubSeq(ds, 1, Len(ds) - 1)) + (IndexIn(DigitChars, ds[Len(ds)]) - 1)

(***************************************************************************)
(* The classification table and determine_category.                        *)
(***************************************************************************)
CATEGORY_LOOKUP == <<
    [cat |-> "Tree", genus_list |-> <<
         <<"q", "u", "e", "r", "c", "u", "s">>,  \* quercus
         <<"p", "r", "o", "s", "o", "p", "i", "s">>,  \* prosopis
         <<"a", "c", "a", "c", "i", "a">>,  \* acacia
         <<"p", "a", "r", "k", "i", "n", "s", "o", "n", "i", "a">>,  \* parkinsonia
         <<"c", "e", "r", "c", "i", "d", "i", "u", "m">>,  \* cercidium
         <<"f", "r", "a", "x", "i", "n", "u", "s">>,  \* fraxinus
         <<"o", "l", "e", "a">>,  \* olea
         <<"p", "i", "s", "t", "a", "c", "i", "a">>,  \* pistacia
         <<"p", "o", "p", "u", "l", "u", "s">>,  \* populus
         <<"p", "i", "n", "u", "s">>,  \* pinus
         <<"c", "h", "i", "l", "o", "p", "s", "i", "s">>  \* chilopsis
       >>],
    [cat |-> "Accent", genus_list |-> <<
         <<"a", "g", "a", "v", "e">>,  \* agave
         <<"y", "u", "c", "c", "a">>,  \* yucca
         <<"h", "e", "s", "p", "e", "r", "a", "l", "o", "e">>,  \* hesperaloe
         <<"d", "a", "s", "y", "l", "i", "r", "i", "o", "n">>,  \* dasylirion
         <<"a", "l", "o", "e">>,  \* aloe
         <<"c", "a", "c", "t", "u", "s">>,  \* cactus
         <<"e", "c", "h", "i", "n", "o", "c", "a", "c", "t", "u", "s">>,  \* echinocactus
         <<"f", "e", "r", "o", "c", "a", "c", "t", "u", "s">>,  \* ferocactus
         <<"o", "p", "u", "n", "t", "i", "a">>,  \* opuntia
         <<"f", "o", "u", "q", "u", "i", "e", "r", "i", "a">>,  \* fouquieria
         <<"c", "h", "a", "m", "a", "e", "r", "o", "p", "s">>,  \* chamaerops
         <<"p", "h", "o", "e", "n", "i", "x">>,  \* phoenix
         <<"w", "a", "s", "h", "i", "n", "g", "t", "o", "n", "i", "a">>  \* washingtonia
       >>],
    [cat |-> "Shrub", genus_list |-> <<
         <<"l", "e", "u", "c", "o", "p", "h", "y", "l", "l", "u", "m">>,  \* leucophyllum
         <<"c", "a", "l", "l", "i", "a", "n", "d", "r", "a">>,  \* calliandra
         <<"t", "e", "c", "o", "m", "a">>,  \* tecoma
         <<"e", "s", "p", "e", "r", "a", "n", "z", "a">>,  \* esperanza
         <<"c", "a", "e", "s", "a", "l", "p", "i", "n", "i", "a">>,  \* caesalpinia
         <<"m", "e", "l", "a", "m", "p", "o", "d", "i", "u", "m">>,  \* melampodium
         <<"b", "u", "x", "u", "s">>,  \* buxus
         <<"n", "e", "r", "i", "u", "m">>  \* nerium
       >>],
    [cat |-> "Groundcover", genus_list |-> <<
         <<"l", "a", "n", "t", "a", "n", "a">>,  \* lantana
         <<"m", "y", "o", "p", "o", "r", "u", "m">>,  \* myoporum
         <<"d", "a", "l", "e", "a">>,  \* dalea
         <<"d", "y", "m", "o", "n", "d", "i", "a">>,  \* dymondia
         <<"c", "a", "r", "i", "s", "s", "a">>,  \* carissa
         <<"t", "r", "a", "c", "h", "e", "l", "o", "s", "p", "e", "r", "m", "u", "m">>,  \* trachelospermum
         <<"v", "e", "r", "b", "e", "n", "a">>,  \* verbena
         <<"g", "a", "z", "a", "n", "i", "a">>  \* gazania
       >>]
    >>

Categories == {CATEGORY_LOOKUP[i].cat : i \in 1..Len(CATEGORY_LOOKUP)}

\* any(genus in lname for genus in genus_list)
AnyGenusIn(genus_list, lname) ==
    \E g \in 1..Len(genus_list) : IsSubstr(genus_list[g], lname)

\* the categories of the table, by position, one of whose genera is in lname
Hits(lname) ==
    {i \in 1..Len(CATEGORY_LOOKUP) : AnyGenusIn(CATEGORY_LOOKUP[i].genus_list, lname)}

\* the last of them in the order of the table, or the fallback
LastHit(hits, fallback) ==
    IF hits = {} THEN fallback ELSE CATEGORY_LOOKUP[Max(hits)].cat

\* the first of them in the order of the table, or the fallback
FirstHit(hits, fallback) ==
    IF hits = {} THEN fallback ELSE CATEGORY_LOOKUP[Min(hits)].cat

determine_category(name, fallback) == FirstHit(Hits(Lower(name)), fallback)

(***************************************************************************)
(* The regular expressions of parse_plant_text.  A pattern is a sequence   *)
(* of character sets, one for each character it consumes.                  *)
(***************************************************************************)
Chars == {CodePoints[i] : i \in 1..Len(CodePoints)}

\* the pattern matches s from position i on
PatAt(pat, s, i) ==
    /\ i + Len(pat) - 1 <= Len(s)
    /\ \A j \in 1..Len(pat) : s[i + j - 1] \in pat[j]

\* a lower-case literal word under re.IGNORECASE matches s from position i on
IgnoreCaseAt(word, s, i) ==
    /\ i + Len(word) - 1 <= Len(s)
    /\ \A j \in 1..Len(word) : LowerChar(s[i + j - 1]) = word[j]

\* r"trees?|accents?|shrubs?|groundcovers?": the words of the alternatives,
\* in the order of the alternation; the optional s never decides a match
HeadingWords == <<
    <<"t", "r", "e", "e">>,
    <<"a", "c", "c", "e", "n", "t">>,
    <<"s", "h", "r", "u", "b">>,
    <<"g", "r", "o", "u", "n", "d", "c", "o", "v", "e", "r">>
    >>

\* re.match in place of re.search: the pattern anchored at the start of the line
HeadingMatch(line) ==
    \E w \in 1..Len(HeadingWords) : IgnoreCaseAt(HeadingWords[w], line, 1)

\* re.search(r"trees?|accents?|shrubs?|groundcovers?", line, re.IGNORECASE)
HeadingSearch(line) ==
    \E w \in 1..Len(HeadingWords) : \E i \in 1..Len(line) :
        IgnoreCaseAt(HeadingWords[w], line, i)

\* the if/elif chain on line.lower(); category is left as it is when no
\* branch is taken
HeadingCategory(line, current) ==
    LET l == Lower(line)
    IN  IF IsSubstr(HeadingWords[1], l) THEN "Tree"
        ELSE IF IsSubstr(HeadingWords[2], l) THEN "Accent"
        ELSE IF IsSubstr(HeadingWords[3], l) THEN "Shrub"
        ELSE IF IsSubstr(HeadingWords[4], l) THEN "Groundcover"
        ELSE current

\* re.match(r"^(\d+)\s+(.*)$", line): the greedy \d+ takes the leading digits,
\* \s+ needs at least one whitespace character after them
QtyEnd(line) == RunEnd(line, 1, Digits)

\* the pattern with the \s+ left out
EntryMatchNoSpace(line) == QtyEnd(line) >= 1

EntryMatch(line) ==
    /\ QtyEnd(line) >= 1
    /\ QtyEnd(line) < Len(line)
    /\ line[QtyEnd(line) + 1] \in Whitespace

\* match.group(1)
EntryQtyText(line) == SubSeq(line, 1, QtyEnd(line))

\* match.group(2).strip()
EntryDesc(line) ==
    Strip(Tail_(line, RunEnd(line, QtyEnd(line) + 1, Whitespace) + 1))

FootMarks == {"'", PRIME}

\* position p of s holds a character of class cls
IsAt(s, p, cls) == p <= Len(s) /\ s[p] \in cls

\* the end of ['′]? after position e
FootEnd(s, e) == IF IsAt(s, e + 1, FootMarks) THEN e + 1 ELSE e

\* the end of \d+['′]? started at i
NumEnd(s, i) == FootEnd(s, RunEnd(s, i, Digits))

\* the text \d+['′]? takes from position i on
Num(s, i) == SubSeq(s, i, NumEnd(s, i))

\* r"(\d+['′]?)\s*[×x]\s*(\d+['′]?)" matched from position i: where the
\* separator [×x] and the second group have to start
DimSep(s, i) == RunEnd(s, NumEnd(s, i) + 1, Whitespace) + 1

DimSecond(s, i) == RunEnd(s, DimSep(s, i) + 1, Whitespace) + 1

\* the dimension pattern matches from position i
DimMatchAt(s, i) ==
    /\ IsAt(s, i, Digits)
    /\ IsAt(s, DimSep(s, i), {TIMES, "x"})
    /\ IsAt(s, DimSecond(s, i), Digits)

\* f"{dim_match.group(1)} × {dim_match.group(2)}" for the match at i
DimText(s, i) == Num(s, i) \o <<" ", TIMES, " ">> \o Num(s, DimSecond(s, i))

\* the same for the leftmost of the matches at the positions at, "" if none
DimsFrom(s, at) == IF at = {} THEN <<>> ELSE DimText(s, Min(at))

\* dims: re.search of the dimension pattern, canonical text or ""
Dims(desc) == DimsFrom(desc, {i \in 1..Len(desc) : DimMatchAt(desc, i)})

\* the alternatives of (?:[Gg]al|[Bb]ox|[Ii][Nn]\.?|[Ff]t\.?|BTH|Bare Root);
\* the optional "." never decides a match and the text it would take is
\* taken by the .* that follows
SizeUnits == {
    <<{"G", "g"}, {"a"}, {"l"}>>,
    <<{"B", "b"}, {"o"}, {"x"}>>,
    <<{"I", "i"}, {"N", "n"}>>,
    <<{"F", "f"}, {"t"}>>,
    <<{"B"}, {"T"}, {"H"}>>,
    <<{"B"}, {"a"}, {"r"}, {"e"}, {" "}, {"R"}, {"o"}, {"o"}, {"t"}>>
    }

\* one of the units starts at position p
UnitAt(s, p) == \E u \in SizeUnits : PatAt(u, s, p)

\* r"(\d+\s*(?:...).*)" matches from position i
SizeMatchAt(s, i) ==
    /\ IsAt(s, i, Digits)
    /\ UnitAt(s, RunEnd(s, RunEnd(s, i, Digits) + 1, Whitespace) + 1)

\* group(1).strip() of the leftmost of the matches at the positions at, which
\* the trailing .* extends to the end of the text; "" if none
SizeFrom(s, at) == IF at = {} THEN <<>> ELSE Strip(Tail_(s, Min(at)))

\* size: re.search of the size pattern
Size(desc) == SizeFrom(desc, {i \in 1..Len(desc) : SizeMatchAt(desc, i)})

\* name: the three statements that clean the name
Name(desc, size, dims) ==
    Strip(ReplaceChar(CollapseSpaces(Strip(Remove(Remove(desc, size), dims))),
                      "-", EMDASH))

\* the category taken from the name whatever the current category
FinalCatByName(current, name) == determine_category(name, "Accent")

\* final_cat = category or determine_category(name)
FinalCat(current, name) ==
    IF current # "None" THEN current ELSE determine_category(name, "Accent")

\* data.append([final_cat, qty, name, size, dims])
Row(current, qty, name, size, dims) ==
    [Category |-> FinalCat(current, name),
     Quantity |-> qty,
     Name     |-> name,
     Size     |-> size,
     Dims     |-> dims]

\* the fields taken from desc
Fields(current, qty, desc, size, dims) ==
    Row(current, qty, Name(desc, size, dims), size, dims)

\* the row appended to data for an entry line under the current category
Entry(line, current) ==
    Fields(current, ParseInt(EntryQtyText(line)), EntryDesc(line),
           Size(EntryDesc(line)), Dims(EntryDesc(line)))

(***************************************************************************)
(* The table: DataFrame.groupby(...).sum() and the two-key sort.           *)
(***************************************************************************)
\* the names of the categories as text, for the comparison of the group keys
CategoryText(cat) ==
    CASE cat = "Tree" -> <<"T", "r", "e", "e">>
      [] cat = "Accent" -> <<"A", "c", "c", "e", "n", "t">>
      [] cat = "Shrub" -> <<"S", "h", "r", "u", "b">>
      [] cat = "Groundcover" -> <<"G", "r", "o", "u", "n", "d", "c", "o", "v", "e", "r">>

\* a < b for str
StrLess(a, b) ==
    \E i \in 1..Len(b) :
        /\ i - 1 <= Len(a)
        /\ \A j \in 1..(i - 1) : a[j] = b[j]
        /\ (i > Len(a) \/ Ord(a[i]) < Ord(b[i]))

\* the group key, the columns named in groupby
Key(r) == <<CategoryText(r.Category), r.Name, r.Size, r.Dims>>

\* k1 < k2 for the tuples of the key columns
KeyLess(k1, k2) ==
    \E c \in 1..4 : (\A b \in 1..(c - 1) : k1[b] = k2[b]) /\ StrLess(k1[c], k2[c])

\* the aggregation first() in place of sum()
QuantityFirst(entries, k) ==
    entries[Min({i \in 1..Len(entries) : Key(entries[i]) = k})].Quantity

\* the sum of the column Quantity over the rows of entries with key k
RECURSIVE QuantitySum(_, _)
QuantitySum(entries, k) ==
    IF entries = <<>> THEN 0
    ELSE (IF Key(Head(entries)) = k THEN Head(entries).Quantity ELSE 0)
         + QuantitySum(Tail(entries), k)

\* the rows of the groups whose first entries are at the positions todo, in
\* the ascending order of their keys
RECURSIVE GroupRows(_, _)
GroupRows(entries, todo) ==
    IF todo = {} THEN <<>>
    ELSE LET i == CHOOSE i \in todo :
                      \A j \in todo : ~KeyLess(Key(entries[j]), Key(entries[i]))
         IN  <<[Category |-> entries[i].Category,
                Name     |-> entries[i].Name,
                Size     |-> entries[i].Size,
                Dims     |-> entries[i].Dims,
                Quantity |-> QuantitySum(entries, Key(entries[i]))]>>
             \o GroupRows(entries, todo \ {i})

\* groupby(keys, as_index=False)["Quantity"].sum(): one row for each key,
\* the rows in the ascending order of the keys
GroupBySum(entries) ==
    GroupRows(entries, {i \in 1..Len(entries) :
                          \A j \in 1..(i - 1) : Key(entries[j]) # Key(entries[i])})

\* df["Category"].map(cat_order)
CatOrder(cat) ==
    CASE cat = "Tree" -> 1
      [] cat = "Accent" -> 2
      [] cat = "Shrub" -> 3
      [] cat = "Groundcover" -> 4

size_order == <<
    [k |-> <<"B", "o", "x">>, v |-> 1],
    [k |-> <<"G", "a", "l">>, v |-> 2],
    [k |-> <<"C", "a", "l">>, v |-> 3],
    [k |-> <<>>, v |-> 4]
    >>

\* next((v for k, v in size_order.items() if k.lower() in s.lower()), 5)
FirstKeyIn(ls) ==
    {i \in 1..Len(size_order) : IsSubstr(Lower(size_order[i].k), ls)}

RankOr(hits, default) == IF hits = {} THEN default ELSE size_order[Min(hits)].v

SizeOrder(s) == RankOr(FirstKeyIn(Lower(s)), 5)

\* df["CatOrder"] = ...; df["SizeOrder"] = ...: the rows with the two columns
WithOrderColumns(rows) ==
    AsSeq([i \in 1..Len(rows) |->
              [row |-> rows[i],
               CatOrder |-> CatOrder(rows[i].Category),
               SizeOrder |-> SizeOrder(rows[i].Size)]], Len(rows))

\* the sort with the column SizeOrder left out of by=
SortLessByCategory(r1, r2) == r1.CatOrder < r2.CatOrder

\* r1 sorts strictly before r2 under by=["CatOrder", "SizeOrder"]
SortLess(r1, r2) ==
    \/ r1.CatOrder < r2.CatOrder
    \/ (r1.CatOrder = r2.CatOrder /\ r1.SizeOrder < r2.SizeOrder)

\* r put into the sorted rows after the rows that do not sort after it
InsertRow(sorted, r) ==
    (SelectSeq(sorted, LAMBDA x : ~SortLess(r, x)) \o <<r>>)
    \o SelectSeq(sorted, LAMBDA x : SortLess(r, x))

\* sort_values(by=["CatOrder", "SizeOrder"]): a stable sort, rows that tie
\* on both columns keep their order
RECURSIVE SortValues(_)
SortValues(rows) ==
    IF rows = <<>> THEN <<>>
    ELSE InsertRow(SortValues(SubSeq(rows, 1, Len(rows) - 1)), rows[Len(rows)])

\* .drop(columns=["CatOrder", "SizeOrder"])
DropOrderColumns(rows) == AsSeq([i \in 1..Len(rows) |-> rows[i].row], Len(rows))

\* the three statements that sort the table
SortTable(rows) == DropOrderColumns(SortValues(WithOrderColumns(rows)))

(***************************************************************************)
(* The inputs: the OCR text of an uploaded file is one of these texts.     *)
(***************************************************************************)
MaxFiles == 2

OcrTexts == {
    \* "TREES\n12 Quercus virginiana 36 in Box 12' U+00D7 10'\n"
    <<"T", "R", "E", "E", "S", "\n", "1", "2", " ", "Q", "u", "e", "r", "c", "u", "s", " ", "v", "i", "r", "g", "i", "n", "i", "a", "n", "a", " ", "3", "6", " ", "i", "n", " ", "B", "o", "x", " ", "1", "2", "'", " ", TIMES, " ", "1", "0", "'", "\n">>,
    \* '  SHRUBS \r\n'
    <<" ", " ", "S", "H", "R", "U", "B", "S", " ", "\r", "\n">>,
    \* '5 Leucophyllum frutescens 5 Gal\n'
    <<"5", " ", "L", "e", "u", "c", "o", "p", "h", "y", "l", "l", "u", "m", " ", "f", "r", "u", "t", "e", "s", "c", "e", "n", "s", " ", "5", " ", "G", "a", "l", "\n">>,
    \* '3 Agave americana\n'
    <<"3", " ", "A", "g", "a", "v", "e", " ", "a", "m", "e", "r", "i", "c", "a", "n", "a", "\n">>,
    \* '4 Agave americana\n\x0c'
    <<"4", " ", "A", "g", "a", "v", "e", " ", "a", "m", "e", "r", "i", "c", "a", "n", "a", "\n", "\f">>,
    \* 'Plant Schedule Notes\n\n24x36 sheet\n'
    <<"P", "l", "a", "n", "t", " ", "S", "c", "h", "e", "d", "u", "l", "e", " ", "N", "o", "t", "e", "s", "\n", "\n", "2", "4", "x", "3", "6", " ", "s", "h", "e", "e", "t", "\n">>,
    \* '0 Lantana camara\n6 Dalea-greggii  1 Gal\n'
    <<"0", " ", "L", "a", "n", "t", "a", "n", "a", " ", "c", "a", "m", "a", "r", "a", "\n", "6", " ", "D", "a", "l", "e", "a", "-", "g", "r", "e", "g", "g", "i", "i", " ", " ", "1", " ", "G", "a", "l", "\n">>,
    \* '7 Olea europaea street side\n'
    <<"7", " ", "O", "l", "e", "a", " ", "e", "u", "r", "o", "p", "a", "e", "a", " ", "s", "t", "r", "e", "e", "t", " ", "s", "i", "d", "e", "\n">>,
    \* 'Groundcovers and Shrubs\n'
    <<"G", "r", "o", "u", "n", "d", "c", "o", "v", "e", "r", "s", " ", "a", "n", "d", " ", "S", "h", "r", "u", "b", "s", "\n">>,
    \* '2 Olea Nerium 5 ft\n'
    <<"2", " ", "O", "l", "e", "a", " ", "N", "e", "r", "i", "u", "m", " ", "5", " ", "f", "t", "\n">>,
    \* '3 5 Gal\n3 Agave 4x5\n'
    <<"3", " ", "5", " ", "G", "a", "l", "\n", "3", " ", "A", "g", "a", "v", "e", " ", "4", "x", "5", "\n">>,
    \* '3 Yucca 15 GAL\n'
    <<"3", " ", "Y", "u", "c", "c", "a", " ", "1", "5", " ", "G", "A", "L", "\n">>,
    \* '4 Prosopis velutina 2 in. Cal\n'
    <<"4", " ", "P", "r", "o", "s", "o", "p", "i", "s", " ", "v", "e", "l", "u", "t", "i", "n", "a", " ", "2", " ", "i", "n", ".", " ", "C", "a", "l", "\n">>,
    \* '2 Acacia 24 BOX\n9 Muhlenbergia rigens 1 gal\n'
    <<"2", " ", "A", "c", "a", "c", "i", "a", " ", "2", "4", " ", "B", "O", "X", "\n", "9", " ", "M", "u", "h", "l", "e", "n", "b", "e", "r", "g", "i", "a", " ", "r", "i", "g", "e", "n", "s", " ", "1", " ", "g", "a", "l", "\n">>,
    \* 'ACCENTS\n1 Rosa 5 bth\n8 Fouquieria splendens 2 Bare Root 6U+2032x 4\n'
    <<"A", "C", "C", "E", "N", "T", "S", "\n", "1", " ", "R", "o", "s", "a", " ", "5", " ", "b", "t", "h", "\n", "8", " ", "F", "o", "u", "q", "u", "i", "e", "r", "i", "a", " ", "s", "p", "l", "e", "n", "d", "e", "n", "s", " ", "2", " ", "B", "a", "r", "e", " ", "R", "o", "o", "t", " ", "6", PRIME, "x", " ", "4", "\n">>
    }

\* [l.strip() for l in raw_text.split("\n") if l.strip()]
NonEmpty(l) == l # <<>>

StripEach(parts) == AsSeq([k \in 1..Len(parts) |-> Strip(parts[k])], Len(parts))

StrippedLines(raw_text) == SelectSeq(StripEach(Split(raw_text)), NonEmpty)

\* what one pass of the loop body computes from a line
LineResult(line) ==
    [heading |-> HeadingSearch(line),
     match   |-> EntryMatch(line),
     row     |-> IF EntryMatch(line) THEN Entry(line, "None") ELSE <<>>]

\* the lines of the texts above, and the loop body's results for them,
\* computed once
KnownLines == UNION {{StrippedLines(t)[k] : k \in 1..Len(StrippedLines(t))} : t \in OcrTexts}

KnownResults == [l \in KnownLines |-> LineResult(l)] @@ <<>>

Result(line) ==
    IF line \in DOMAIN KnownResults THEN KnownResults[line] ELSE LineResult(line)

(***************************************************************************)
(* The pipeline as a state machine.                                        *)
(***************************************************************************)
VARIABLES
    uploaded_files,  \* the OCR text of each uploaded file, in upload order
    file_i,          \* the file the loop of the main pipeline is at
    all_text,        \* the text concatenated so far
    pc,              \* "extract", "scan" or "done"
    lines,           \* parse_plant_text: the stripped non-empty lines
    line_i,          \* the line the for loop is at
    category,        \* the current category, "None" while unset
    data,            \* the rows appended so far
    df               \* the table returned

vars == <<uploaded_files, file_i, all_text, pc, lines, line_i, category, data, df>>

Init ==
    /\ uploaded_files \in UNION {[1..n -> OcrTexts] : n \in 1..MaxFiles}
    /\ file_i = 1
    /\ all_text = <<>>
    /\ pc = "extract"
    /\ lines = <<>>
    /\ line_i = 1
    /\ category = "None"
    /\ data = <<>>
    /\ df = <<>>

\* all_text += extract_text(file)
ExtractText ==
    /\ pc = "extract"
    /\ file_i <= Len(uploaded_files)
    /\ all_text' = all_text \o uploaded_files[file_i]
    /\ file_i' = file_i + 1
    /\ UNCHANGED <<uploaded_files, pc, lines, line_i, category, data, df>>

\* parse_plant_text(all_text) up to its for loop
SplitLines ==
    /\ pc = "extract"
    /\ file_i > Len(uploaded_files)
    /\ lines' = StrippedLines(all_text)
    /\ data' = <<>>
    /\ category' = "None"
    /\ line_i' = 1
    /\ pc' = "scan"
    /\ UNCHANGED <<uploaded_files, file_i, all_text, df>>

\* a pass of the loop on a section heading
Heading ==
    /\ pc = "scan"
    /\ line_i <= Len(lines)
    /\ Result(lines[line_i]).heading
    /\ category' = HeadingCategory(lines[line_i], category)
    /\ line_i' = line_i + 1
    /\ UNCHANGED <<uploaded_files, file_i, all_text, pc, lines, data, df>>

\* a pass of the loop on a line that does not start with a quantity
SkipLine ==
    /\ pc = "scan"
    /\ line_i <= Len(lines)
    /\ ~Result(lines[line_i]).heading
    /\ ~Result(lines[line_i]).match
    /\ line_i' = line_i + 1
    /\ UNCHANGED <<uploaded_files, file_i, all_text, pc, lines, category, data, df>>

\* a pass of the loop on an entry line
AppendEntry ==
    /\ pc = "scan"
    /\ line_i <= Len(lines)
    /\ ~Result(lines[line_i]).heading
    /\ Result(lines[line_i]).match
    /\ LET row == Result(lines[line_i]).row
       IN  data' = Append(data, [row EXCEPT !.Category = FinalCat(category, row.Name)])
    /\ line_i' = line_i + 1
    /\ UNCHANGED <<uploaded_files, file_i, all_text, pc, lines, category, df>>

\* after the loop: the DataFrame, groupby and sort, and the return
Aggregate ==
    /\ pc = "scan"
    /\ line_i > Len(lines)
    /\ df' = SortTable(GroupBySum(data))
    /\ pc' = "done"
    /\ UNCHANGED <<uploaded_files, file_i, all_text, lines, line_i, category, data>>

Next ==
    \/ ExtractText
    \/ SplitLines
    \/ Heading
    \/ SkipLine
    \/ AppendEntry
    \/ Aggregate

Spec == Init /\ [][Next]_vars


(***************************************************************************)
(* The properties checked of the pipeline.                                 *)
(***************************************************************************)

\* the pass of the loop that the next step makes is on the line at line_i
InLoop == pc = "scan" /\ line_i <= Len(lines)

\* the row the step appended to data
Appended == data'[Len(data')]

\* C1: in the returned table every two adjacent rows are in the order of
\* the category rank (Tree 1, Accent 2, Shrub 3, Groundcover 4), and rows of
\* equal category rank are in the order of the size rank.
C1_SortInvariant ==
    pc = "done" =>
        \A i \in 1..(Len(df) - 1) :
            /\ CatOrder(df[i].Category) <= CatOrder(df[i + 1].Category)
            /\ CatOrder(df[i].Category) = CatOrder(df[i + 1].Category)
                   => SizeOrder(df[i].Size) <= SizeOrder(df[i + 1].Size)

\* a returned table in which two adjacent rows of one category have
\* different size ranks and stand against the order of their names, the
\* order groupby left them in
C1_Witness ==
    /\ pc = "done"
    /\ \E i \in 1..(Len(df) - 1) :
           /\ df[i].Category = df[i + 1].Category
           /\ SizeOrder(df[i].Size) < SizeOrder(df[i + 1].Size)
           /\ StrLess(df[i + 1].Name, df[i].Name)

\* the positions of the entries of data that have the key of the row r
SameKey(r) == {i \in 1..Len(data) : Key(data[i]) = Key(r)}

\* the sum of the quantities of the entries of data at the positions in at
RECURSIVE Total(_)
Total(at) ==
    IF at = {} THEN 0
    ELSE data[Max(at)].Quantity + Total(at \ {Max(at)})

\* C2: the returned table has exactly one row for each key (category, name,
\* size, dimensions) among the entries, and the quantity of a row is the sum
\* of the quantities of the entries with its key.
C2_SumInvariant ==
    pc = "done" =>
        /\ \A i, j \in 1..Len(df) : Key(df[i]) = Key(df[j]) => i = j
        /\ {Key(df[i]) : i \in 1..Len(df)} = {Key(data[i]) : i \in 1..Len(data)}
        /\ \A i \in 1..Len(df) : df[i].Quantity = Total(SameKey(df[i]))

\* the entries "3 Agave americana" and "4 Agave americana" summed to one row
\* of quantity 7
C2_Witness ==
    /\ pc = "done"
    /\ \E i \in 1..Len(df) :
           /\ df[i].Name = <<"A", "g", "a", "v", "e", " ", "a", "m", "e", "r", "i", "c", "a", "n", "a">>
           /\ df[i].Quantity = 7
           /\ {data[k].Quantity : k \in SameKey(df[i])} = {3, 4}


\* the line of Example 1 and the entry the example gives for it
Example1Line == <<"1", "2", " ", "Q", "u", "e", "r", "c", "u", "s", " ", "v", "i", "r", "g", "i", "n", "i", "a", "n", "a", " ", "3", "6", " ", "i", "n", " ", "B", "o", "x", " ", "1", "2", "'", " ", TIMES, " ", "1", "0", "'">>

Example1Entry ==
    [Category |-> "Tree",
     Quantity |-> 12,
     Name     |-> <<"Q", "u", "e", "r", "c", "u", "s", " ", "v", "i", "r", "g", "i", "n", "i", "a", "n", "a">>,
     Size     |-> <<"3", "6", " ", "i", "n", " ", "B", "o", "x">>,
     Dims     |-> <<"1", "2", "'", " ", TIMES, " ", "1", "0", "'">>]

\* C3: the line "12 Quercus virginiana 36 in Box 12' x 10'" (with the
\* multiplication sign) read under the category Tree gives the entry
\* {Tree, 12, "Quercus virginiana", "36 in Box", "12' x 10'"}: the size is
\* the size descriptor alone.
C3_Example1 ==
    (pc = "scan" /\ line_i > 1 /\ lines[line_i - 1] = Example1Line /\ category = "Tree")
        => (data # <<>> /\ data[Len(data)] = Example1Entry)

\* the text of desc that the dimension pattern matched, "" if it did not
DimFound(desc, at) ==
    IF at = {} THEN <<>>
    ELSE SubSeq(desc, Min(at), NumEnd(desc, DimSecond(desc, Min(at))))

DimMatched(desc) == DimFound(desc, {i \in 1..Len(desc) : DimMatchAt(desc, i)})

\* neither of the two texts, when not empty, is part of the other
Disjoint(a, b) == (a # <<>> /\ b # <<>>) => (~IsSubstr(a, b) /\ ~IsSubstr(b, a))

\* the fields of the entry e do not overlap, found being the dimension
\* descriptor as the line has it
NoOverlap(e, found) ==
    /\ e.Size # <<>> => ~IsSubstr(e.Size, e.Name)
    /\ found # <<>> => ~IsSubstr(found, e.Name)
    /\ e.Dims # <<>> => ~IsSubstr(e.Dims, e.Name)
    /\ Disjoint(e.Size, e.Dims)

\* C4: the name of an emitted entry contains neither the size nor the
\* dimension descriptor found in its line, however the dimensions are
\* written, and the size and the dimensions do not repeat each other.
C4_NoOverlap ==
    [][data' # data => NoOverlap(Appended, DimMatched(EntryDesc(lines[line_i])))]_vars

\* the line begins with an integer followed by whitespace
LeadingInteger(line) ==
    \E k \in 1..(Len(line) - 1) :
        /\ \A j \in 1..k : line[j] \in Digits
        /\ line[k + 1] \in Whitespace

\* the integer a line begins with
LeadingValue(line) ==
    ParseInt(SubSeq(line, 1, Max({k \in 1..Len(line) : \A j \in 1..k : line[j] \in Digits})))

\* an entry is appended only by a pass of the loop on a line that begins
\* with an integer followed by whitespace, and its quantity is that integer
OnlyFromQuantityLines ==
    data' # data =>
        /\ InLoop
        /\ data' = Append(data, Appended)
        /\ LeadingInteger(lines[line_i])
        /\ Appended.Quantity = LeadingValue(lines[line_i])

\* C5, as the code has it: the quantity of every entry and of every row of
\* the table is at least 0, the integer its line begins with, and a line
\* that does not begin with an integer followed by whitespace gives no entry.
C5_Quantity ==
    /\ [](\A i \in 1..Len(data) : data[i].Quantity >= 0)
    /\ [](\A i \in 1..Len(df) : df[i].Quantity >= 0)
    /\ [][OnlyFromQuantityLines]_vars

\* C5 as stated: the quantity of every entry and of every row of the table
\* is at least 1, and a line that does not begin with an integer followed by
\* whitespace gives no entry.
C5_QuantityAtLeastOne ==
    /\ [](\A i \in 1..Len(data) : data[i].Quantity >= 1)
    /\ [](\A i \in 1..Len(df) : df[i].Quantity >= 1)
    /\ [][OnlyFromQuantityLines]_vars

\* the loop is through, a line that begins with digits not followed by
\* whitespace gave no entry, and an entry of quantity 0 was emitted
C5_Witness ==
    /\ pc = "scan"
    /\ line_i > Len(lines)
    /\ \E k \in 1..Len(lines) : lines[k][1] \in Digits /\ ~LeadingInteger(lines[k])
    /\ Len(data) = 2
    /\ data[1].Quantity = 0
    /\ data[1].Name = <<"L", "a", "n", "t", "a", "n", "a", " ", "c", "a", "m", "a", "r", "a">>


\* the order in which the categories are tried
ClaimedOrder == <<"Tree", "Accent", "Shrub", "Groundcover">>

\* the keywords of a category
KeywordsOf(cat) ==
    CATEGORY_LOOKUP[CHOOSE i \in 1..Len(CATEGORY_LOOKUP) : CATEGORY_LOOKUP[i].cat = cat].genus_list

\* the places in ClaimedOrder of the categories with a keyword in lname
Matching(lname) ==
    {c \in 1..Len(ClaimedOrder) :
        \E g \in 1..Len(KeywordsOf(ClaimedOrder[c])) :
            IsSubstr(KeywordsOf(ClaimedOrder[c])[g], lname)}

FirstMatching(found) ==
    IF found = {} THEN "Accent" ELSE ClaimedOrder[Min(found)]

\* the first category in the order Tree, Accent, Shrub, Groundcover with a
\* keyword in the lower-cased name, Accent when there is none
Classified(name) == FirstMatching(Matching(Lower(name)))

\* C6: every entry and every row of the table has one of the four
\* categories, and an entry read while no category is current has the first
\* category, in the order Tree, Accent, Shrub, Groundcover, with a keyword
\* in its lower-cased name, Accent when no keyword is in it.
C6_Category ==
    /\ [](\A i \in 1..Len(data) : data[i].Category \in {"Tree", "Accent", "Shrub", "Groundcover"})
    /\ [](\A i \in 1..Len(df) : df[i].Category \in {"Tree", "Accent", "Shrub", "Groundcover"})
    /\ [][(data' # data /\ category = "None")
             => Appended.Category = Classified(Appended.Name)]_vars

\* with no category current, an entry with the empty name was classified
\* Accent and the entry "Olea Nerium", with a Tree and a Shrub keyword, Tree
C6_Witness ==
    /\ pc = "scan"
    /\ category = "None"
    /\ \E i \in 1..Len(data) : data[i].Name = <<>> /\ data[i].Category = "Accent"
    /\ \E i \in 1..Len(data) :
           /\ data[i].Name = <<"O", "l", "e", "a", " ", "N", "e", "r", "i", "u", "m">>
           /\ Matching(Lower(data[i].Name)) = {1, 3}
           /\ data[i].Category = "Tree"

\* the heading keyword of each category
KeywordOf ==
    [Tree        |-> <<"t", "r", "e", "e">>,
     Accent      |-> <<"a", "c", "c", "e", "n", "t">>,
     Shrub       |-> <<"s", "h", "r", "u", "b">>,
     Groundcover |-> <<"g", "r", "o", "u", "n", "d", "c", "o", "v", "e", "r">>]

\* the categories whose keyword is in the lower-cased line
MentionedIn(lline) == {c \in DOMAIN KeywordOf : IsSubstr(KeywordOf[c], lline)}

Mentioned(line) == MentionedIn(Lower(line))

Example2Heading == <<"S", "H", "R", "U", "B", "S">>

Example2Line == <<"5", " ", "L", "e", "u", "c", "o", "p", "h", "y", "l", "l", "u", "m", " ", "f", "r", "u", "t", "e", "s", "c", "e", "n", "s", " ", "5", " ", "G", "a", "l">>

Example2Entry ==
    [Category |-> "Shrub",
     Quantity |-> 5,
     Name     |-> <<"L", "e", "u", "c", "o", "p", "h", "y", "l", "l", "u", "m", " ", "f", "r", "u", "t", "e", "s", "c", "e", "n", "s">>,
     Size     |-> <<"5", " ", "G", "a", "l">>,
     Dims     |-> <<>>]

\* C7: the pass of the loop on a line with one of the keywords tree, accent,
\* shrub, groundcover in it, in any case and anywhere, sets the current
\* category to that of a keyword in the line and appends no entry, also when
\* the line begins with an integer followed by whitespace; "SHRUBS" sets
\* Shrub and the line "5 Leucophyllum frutescens 5 Gal" after it gives
\* {Shrub, 5, "Leucophyllum frutescens", "5 Gal", ""}.
C7_Headings ==
    /\ [][(InLoop /\ Mentioned(lines[line_i]) # {})
             => (data' = data /\ category' \in Mentioned(lines[line_i]))]_vars
    /\ [][(InLoop /\ lines[line_i] = Example2Heading) => category' = "Shrub"]_vars
    /\ [][(InLoop /\ line_i > 1 /\ lines[line_i - 1] = Example2Heading
                  /\ lines[line_i] = Example2Line)
             => data' = Append(data, Example2Entry)]_vars

\* the loop has just passed a line that begins with an integer followed by
\* whitespace and has a keyword in it: Tree is current and there is no entry
C7_Witness ==
    /\ pc = "scan"
    /\ line_i = 2
    /\ LeadingInteger(lines[1])
    /\ Mentioned(lines[1]) = {"Tree"}
    /\ category = "Tree"
    /\ data = <<>>


\* the units of the size pattern, in lower case
UnitWords == {
    <<"g", "a", "l">>,
    <<"b", "o", "x">>,
    <<"i", "n">>,
    <<"f", "t">>,
    <<"b", "t", "h">>,
    <<"b", "a", "r", "e", " ", "r", "o", "o", "t">>
    }

\* a number, optional whitespace and a unit start at position i of the
\* lower-cased text
SizeAnyCaseAt(ltext, i) ==
    /\ IsAt(ltext, i, Digits)
    /\ \E u \in UnitWords :
           StartsWithAt(ltext, RunEnd(ltext, RunEnd(ltext, i, Digits) + 1, Whitespace) + 1, u)

\* the size pattern, in any letter case, occurs in the text
HasSizeAnyCase(desc) == \E i \in 1..Len(desc) : SizeAnyCaseAt(Lower(desc), i)

\* C8: the size of an entry is not empty when its description has a number,
\* optional whitespace and one of the units Gal, Box, in, ft, BTH, Bare Root
\* in any letter case, and is "" only when it has none.
C8_SizeAnyCase ==
    [][data' # data
          => (Appended.Size # <<>> <=> HasSizeAnyCase(EntryDesc(lines[line_i])))]_vars

\* the keys of the size ranks, in lower case, in the order of the list
ClaimedKeys == <<<<"b", "o", "x">>, <<"g", "a", "l">>, <<"c", "a", "l">>, <<>>>>

\* the rank of the first key that is in the lower-cased size
FirstKeyRank(lsize) == Min({k \in 1..Len(ClaimedKeys) : IsSubstr(ClaimedKeys[k], lsize)})

\* none of the keys Box, Gal, Cal is in the lower-cased size
NoNamedKey(lsize) == \A k \in 1..3 : ~IsSubstr(ClaimedKeys[k], lsize)

\* C9: the size rank of a row is that of the first entry of the list
\* Box 1, Gal 2, Cal 3, "" 4 whose key is in the size, in any letter case,
\* and a row with none of the keys Box, Gal, Cal in its size has rank 5.
C9_SizeRank ==
    pc = "done" =>
        \A i \in 1..Len(df) :
            /\ SizeOrder(df[i].Size) = FirstKeyRank(Lower(df[i].Size))
            /\ NoNamedKey(Lower(df[i].Size)) => SizeOrder(df[i].Size) = 5

\* the heading lines among the lines the loop has passed
HeadingsBefore == {k \in 1..(line_i - 1) : Mentioned(lines[k]) # {}}

\* the category of an appended entry: that of the last heading line before
\* it, or, when there is none, the one its name is classified as
FromLastHeading ==
    data' # data =>
        IF HeadingsBefore # {}
        THEN Appended.Category \in Mentioned(lines[Max(HeadingsBefore)])
        ELSE Appended.Category = determine_category(Appended.Name, "Accent")

\* C10: the current category is unset at the start, changes only in the
\* pass of the loop on a heading line, and once set is not unset again; so an
\* entry has the category of the last heading line before it, whatever its
\* name and whichever document the heading is in, and the category
\* determine_category gives its name, Accent when no keyword is in it, only
\* when no heading line is before it.
C10_CurrentCategory ==
    /\ []((pc = "extract" \/ (pc = "scan" /\ line_i = 1)) => category = "None")
    /\ [][category' # category => (InLoop /\ Mentioned(lines[line_i]) # {})]_vars
    /\ [][category # "None" => category' # "None"]_vars
    /\ [][FromLastHeading]_vars

\* two documents, the heading in the first: the entry of the second has the
\* category Tree of the heading though its name is classified Accent
C10_Witness ==
    /\ pc = "scan"
    /\ Len(uploaded_files) = 2
    /\ line_i > Len(lines)
    /\ Mentioned(uploaded_files[1]) = {"Tree"}
    /\ Mentioned(uploaded_files[2]) = {}
    /\ Len(data) = 2
    /\ data[2].Category = "Tree"
    /\ determine_category(data[2].Name, "Accent") = "Accent"
    /\ Matching(Lower(data[2].Name)) = {2}

====
